---------------------------- MODULE Spec2Model ----------------------------
(***************************************************************************)
(* A model of crypilot: the string utilities of cry_strings.py, the        *)
(* process-wide configuration of cry_config.py, the clue variants of       *)
(* clues.py and the Combination clue source of clue_sources.py.            *)
(*                                                                         *)
(* A Python str is a sequence of one-character strings.  A Python dict is  *)
(* a sequence of entries in insertion order.  A raised exception is a      *)
(* result record with outcome "raise".                                     *)
(***************************************************************************)
EXTENDS Integers, Sequences, FiniteSets, TLC

VARIABLES
    indicator_delims,   \* CrypilotConfig._indicator_delims
    token_separator,    \* CrypilotConfig._token_separator
    records,            \* the objects constructed so far
    last,               \* the outcome of the most recent constructor call
    args,               \* the arguments of the call under study
    im_result,          \* what indicator_matches(*args) did
    cim_result          \* what check_indicator_matches(*args) did

vars == <<indicator_delims, token_separator, records, last, args, im_result, cim_result>>

----------------------------------------------------------------------------
(* Bounds *)

MaxPieces == 3      \* pieces (placeholder tokens or literals) of a drawn template
MaxListLen == 2     \* length of a drawn list-valued substitution
MaxEntries == 2     \* entries of a drawn substitution map
MaxClueLen == 2     \* length of a drawn clue text
MaxAnswerLen == 2   \* length of a drawn answer
MaxRecords == 2     \* objects the caller constructs in one run

----------------------------------------------------------------------------
(* Characters *)

LowerSeq == <<"a","b","c","d","e","f","g","h","i","j","k","l","m",
              "n","o","p","q","r","s","t","u","v","w","x","y","z">>
UpperSeq == <<"A","B","C","D","E","F","G","H","I","J","K","L","M",
              "N","O","P","Q","R","S","T","U","V","W","X","Y","Z">>
Digits == {"0","1","2","3","4","5","6","7","8","9"}

Range(f) == {f[i] : i \in DOMAIN f}

IsUpper(c) == c \in Range(UpperSeq)
IsLower(c) == c \in Range(LowerSeq)

\* Characters outside ASCII, each written as its code point: a str holds any
\* Unicode character
JCaron == "U+01F0"            \* LATIN SMALL LETTER J WITH CARON
CombiningCaron == "U+030C"    \* COMBINING CARON, a mark
FeminineOrdinal == "U+00AA"   \* FEMININE ORDINAL INDICATOR, a caseless letter

\* str.isalnum() of one character
isalnum(c) ==
    IsUpper(c) \/ IsLower(c) \/ c \in Digits \/ c \in {JCaron, FeminineOrdinal}

\* str.isalpha() of one character
isalpha(c) == IsUpper(c) \/ IsLower(c) \/ c \in {JCaron, FeminineOrdinal}

\* str.upper() of one character; the result is a str, and for a character
\* with no single uppercase character it is longer than one character
upper(c) ==
    IF IsLower(c)
    THEN <<UpperSeq[CHOOSE i \in DOMAIN LowerSeq : LowerSeq[i] = c]>>
    ELSE IF c = JCaron THEN <<"J", CombiningCaron>>
    ELSE <<c>>

----------------------------------------------------------------------------
(* Python str operations *)

\* s[i-1:].startswith(sub), positions counted from 1
MatchAt(s, sub, i) ==
    /\ i + Len(sub) - 1 <= Len(s)
    /\ SubSeq(s, i, i + Len(sub) - 1) = sub

\* sub in s, for a non-empty sub
Contains(s, sub) == \E i \in 1..Len(s) : MatchAt(s, sub, i)

\* s.find(sub) + 1: the first position of sub in s, 0 when absent
Find(s, sub) ==
    IF Contains(s, sub)
    THEN CHOOSE i \in 1..Len(s) :
            /\ MatchAt(s, sub, i)
            /\ \A j \in 1..(i - 1) : ~MatchAt(s, sub, j)
    ELSE 0

\* s.replace(sub, new, 1)
ReplaceFirst(s, sub, new) ==
    LET i == Find(s, sub)
    IN  IF i = 0 THEN s
        ELSE SubSeq(s, 1, i - 1) \o new \o SubSeq(s, i + Len(sub), Len(s))

\* s.count(sub): non-overlapping occurrences, scanned left to right
RECURSIVE CountFrom(_, _, _)
CountFrom(s, sub, i) ==
    IF i > Len(s) THEN 0
    ELSE IF MatchAt(s, sub, i) THEN 1 + CountFrom(s, sub, i + Len(sub))
    ELSE CountFrom(s, sub, i + 1)

Count(s, sub) == CountFrom(s, sub, 1)

\* ''.join(l)
RECURSIVE Join(_)
Join(l) == IF l = <<>> THEN <<>> ELSE Head(l) \o Join(Tail(l))

----------------------------------------------------------------------------
(* cry_strings.py *)

RECURSIVE normalize(_)
normalize(s) ==
    IF s = <<>> THEN <<>>
    ELSE (IF isalnum(Head(s)) THEN upper(Head(s)) ELSE <<>>) \o normalize(Tail(s))

equals_normalized(a, b) == normalize(a) = normalize(b)

\* start not in s and end not in s
is_clue(s, delims) ==
    /\ ~Contains(s, <<delims[1]>>)
    /\ ~Contains(s, <<delims[2]>>)


----------------------------------------------------------------------------
(* Substitution values (IndicatorPart): None, a str, a list of str, or a   *)
(* value of any other type.                                                *)

NoneValue == [kind |-> "none", s |-> <<>>, l |-> <<>>]
StrValue(s) == [kind |-> "str", s |-> s, l |-> <<>>]
ListValue(l) == [kind |-> "list", s |-> <<>>, l |-> l]
OtherValue == [kind |-> "other", s |-> <<>>, l |-> <<>>]

Entry(key, value) == [key |-> key, value |-> value]

----------------------------------------------------------------------------
(* The indicator matcher *)

\* f'{start}{key}{end}'
bracketed_key_Bare(key, delims) == key
bracketed_key(key, delims) == <<delims[1]>> \o key \o <<delims[2]>>

\* for sub_value in value: replaced = replaced.replace(bracketed_key, sub_value, 1)
RECURSIVE ReplaceEach(_, _, _)
ReplaceEach(replaced, token, value) ==
    IF value = <<>> THEN replaced
    ELSE ReplaceEach(ReplaceFirst(replaced, token, Head(value)), token, Tail(value))

Substituted(replaced) ==
    [raised |-> FALSE, err |-> "", token |-> <<>>, count |-> 0, len |-> 0,
     replaced |-> replaced]

TemplateError(err, token, count, len, replaced) ==
    [raised |-> TRUE, err |-> err, token |-> token, count |-> count, len |-> len,
     replaced |-> replaced]

\* if bracketed_key not in replaced_indicator
KeyNotFound_Never(replaced, token) == FALSE
KeyNotFound(replaced, token) == ~Contains(replaced, token)

\* if count != len(value)
CountMismatch_TooFewOnly(count, value) == count < Len(value)
CountMismatch(count, value) == count # Len(value)

\* the loop over parts.items(), from entry i on
RECURSIVE SubstituteFrom(_, _, _, _)
SubstituteFrom(replaced, parts, i, delims) ==
    IF i > Len(parts) THEN Substituted(replaced)
    ELSE
      LET value == parts[i].value
          token == bracketed_key(parts[i].key, delims)
      IN  IF value.kind = "none"
          THEN SubstituteFrom(replaced, parts, i + 1, delims)
          ELSE IF value.kind = "str"
          THEN IF KeyNotFound(replaced, token)
               THEN TemplateError("not_found", token, 0, 0, replaced)
               ELSE SubstituteFrom(ReplaceFirst(replaced, token, value.s),
                                   parts, i + 1, delims)
          ELSE IF value.kind = "list"
          THEN LET count == Count(replaced, token)
               IN  IF CountMismatch(count, value.l)
                   THEN TemplateError("count", token, count, Len(value.l), replaced)
                   ELSE SubstituteFrom(ReplaceEach(replaced, token, value.l),
                                       parts, i + 1, delims)
          ELSE TemplateError("type", token, 0, 0, replaced)

\* kind "raise": a ValueError left the function; kind "message": the error
\* string was returned; kind "None": None was returned
_check_indicator_matches(clue, indicator, parts, delims) ==
    LET r == SubstituteFrom(indicator, parts, 1, delims)
    IN  IF r.raised
        THEN [kind |-> "raise", err |-> r.err, token |-> r.token,
              count |-> r.count, len |-> r.len, replaced |-> r.replaced]
        ELSE IF ~equals_normalized(r.replaced, clue)
        THEN [kind |-> "message", err |-> "match", token |-> <<>>,
              count |-> 0, len |-> 0, replaced |-> r.replaced]
        ELSE [kind |-> "None", err |-> "", token |-> <<>>,
              count |-> 0, len |-> 0, replaced |-> r.replaced]

Raised(error) ==
    [outcome |-> "raise", value |-> "", err |-> error.err, token |-> error.token,
     count |-> error.count, len |-> error.len]

Returned(value) ==
    [outcome |-> "return", value |-> value, err |-> "", token |-> <<>>,
     count |-> 0, len |-> 0]

Uncalled ==
    [outcome |-> "uncalled", value |-> "", err |-> "", token |-> <<>>,
     count |-> 0, len |-> 0]

indicator_matches_Swallow(clue, indicator, parts, delims) ==
    LET error == _check_indicator_matches(clue, indicator, parts, delims)
    IN  IF error.kind = "None" THEN Returned("True") ELSE Returned("False")

\* return _check_indicator_matches(clue, indicator, parts) is None
indicator_matches(clue, indicator, parts, delims) ==
    LET error == _check_indicator_matches(clue, indicator, parts, delims)
    IN  IF error.kind = "raise" THEN Raised(error)
        ELSE IF error.kind = "None" THEN Returned("True")
        ELSE Returned("False")

\* error = _check_indicator_matches(...); if error: raise ValueError(error)
\* (the returned message is never the empty string, so it is truthy)
check_indicator_matches(clue, indicator, parts, delims) ==
    LET error == _check_indicator_matches(clue, indicator, parts, delims)
    IN  IF error.kind = "raise" THEN Raised(error)
        ELSE IF error.kind = "message" THEN Raised(error)
        ELSE Returned("None")


----------------------------------------------------------------------------
(* Answer form, cry_strings.py *)

\* the character class [A-Z \-]
AnswerChar(c) == IsUpper(c) \/ c = " " \/ c = "-"

\* re.match(r'^[A-Z \-]+$', s) is not None.  In Python "$" matches at the
\* end of the string and also just before a newline that ends the string.
is_answer(s) ==
    LET body == IF s # <<>> /\ s[Len(s)] = "\n" THEN SubSeq(s, 1, Len(s) - 1) ELSE s
    IN  /\ body # <<>>
        /\ \A i \in DOMAIN body : AnswerChar(body[i])

----------------------------------------------------------------------------
(* sorted(), by code point *)

Ascii ==
    <<"\n", " ", "-", "0", "1", "2", "3", "4", "5", "6", "7", "8", "9", "<", ">">>
    \o UpperSeq \o <<"[", "]", "_">> \o LowerSeq \o <<"|">>

ord(c) == CHOOSE i \in DOMAIN Ascii : Ascii[i] = c

RECURSIVE Insert(_, _)
Insert(c, s) ==
    IF s = <<>> THEN <<c>>
    ELSE IF ord(c) <= ord(Head(s)) THEN <<c>> \o s
    ELSE <<Head(s)>> \o Insert(c, Tail(s))

RECURSIVE sorted(_)
sorted(s) == IF s = <<>> THEN <<>> ELSE Insert(Head(s), sorted(Tail(s)))

\* s[::-1]
RECURSIVE Reverse(_)
Reverse(s) == IF s = <<>> THEN <<>> ELSE Reverse(Tail(s)) \o <<Head(s)>>

----------------------------------------------------------------------------
(* Clue sources, clue_sources.py.  A ClueSource is a str or a Combination; *)
(* objects are values, a Combination holds the variant it combines.        *)

ClueStr(s) == [type |-> "str", text |-> s]

clue_input(clue) == IF clue.type = "str" THEN clue.text ELSE clue.input

clue_output(clue) == IF clue.type = "str" THEN clue.text ELSE clue.output

NoRecord == [type |-> "none"]

Success(record) == [ok |-> TRUE, err |-> "", record |-> record]
Failure(err) == [ok |-> FALSE, err |-> err, record |-> NoRecord]

\* Combination.__post_init__.  self.prefix + self.combined.clue + self.suffix
\* concatenates str objects: a combined.clue that is a Combination raises
\* TypeError.
CombinationInputCheck(input, prefix, combined, suffix) ==
    equals_normalized(input, prefix \o combined.clue.text \o suffix)

CombinationOutputCheck_Skip(output, prefix, combined, suffix) == TRUE
CombinationOutputCheck(output, prefix, combined, suffix) ==
    equals_normalized(output, prefix \o combined.answer \o suffix)

Combination(input, prefix, combined, suffix, output) ==
    IF combined.clue.type # "str" THEN Failure("TypeError")
    ELSE IF ~CombinationInputCheck(input, prefix, combined, suffix)
    THEN Failure("combination")
    ELSE IF ~CombinationOutputCheck(output, prefix, combined, suffix)
    THEN Failure("combination")
    ELSE Success([type |-> "Combination", input |-> input, prefix |-> prefix,
                  combined |-> combined, suffix |-> suffix, output |-> output])

----------------------------------------------------------------------------
(* Clue variants, clues.py.  A variant is a record of its dataclass fields; *)
(* parts holds the indicator parts by field name, in declaration order.     *)

Variant(type, clue, indicator, parts, answer) ==
    [type |-> type, clue |-> clue, indicator |-> indicator, parts |-> parts,
     answer |-> answer]

VariantTypes ==
    {"Definition", "Anagram", "Hidden", "Container", "Deletion", "Reversal",
     "Homophone"}

\* ClueType.__post_init__: the error it raises, "" when it returns
ClueType_post_init(clue, answer, delims) ==
    IF ~is_clue(clue_input(clue), delims) THEN "clue_format"
    ELSE IF ~is_answer(answer) THEN "answer_format"
    ELSE ""

\* ClueType.check_indicator_matches: the error it raises, "" when it returns
ClueType_check_indicator_matches_Input(clue, indicator, parts, delims) ==
    check_indicator_matches(clue_input(clue), indicator, parts, delims).err
ClueType_check_indicator_matches(clue, indicator, parts, delims) ==
    check_indicator_matches(clue_output(clue), indicator, parts, delims).err

\* ''.join(part) if isinstance(part, list) else part
Joined(value) == IF value.kind = "list" THEN Join(value.l) ELSE value.s

\* the checks every indicator-bearing variant starts with, then its own
IndicatorVariant(type, clue, indicator, parts, answer, delims, semantic) ==
    LET format == ClueType_post_init(clue, answer, delims)
    IN  IF format # "" THEN Failure(format)
        ELSE LET match == ClueType_check_indicator_matches(clue, indicator, parts, delims)
             IN  IF match # "" THEN Failure(match)
                 ELSE IF semantic # "" THEN Failure(semantic)
                 ELSE Success(Variant(type, clue, indicator, parts, answer))

\* Definition.__post_init__ does not call super().__post_init__()
Definition(clue, answer) ==
    IF ~is_answer(answer) THEN Failure("answer_format")
    ELSE Success(Variant("Definition", clue, <<>>, <<>>, answer))

\* check_normalized_equal(''.join(sorted(normalize(self.fodder))),
\*                        ''.join(sorted(self.answer)), ...) does not raise
AnagramCheck_SameLetters(fodder, answer) ==
    Range(normalize(fodder)) = Range(normalize(answer))
AnagramCheck(fodder, answer) ==
    equals_normalized(sorted(normalize(fodder)), sorted(answer))

Anagram(clue, indicator, fodder, answer, delims) ==
    IndicatorVariant("Anagram", clue, indicator,
        <<Entry(<<"f","o","d","d","e","r">>, fodder)>>, answer, delims,
        IF ~AnagramCheck(fodder.s, answer) THEN "semantic" ELSE "")

Container(clue, indicator, outer_left, outer_right, inner, answer, delims) ==
    IndicatorVariant("Container", clue, indicator,
        <<Entry(<<"o","u","t","e","r","_","l","e","f","t">>, outer_left),
          Entry(<<"o","u","t","e","r","_","r","i","g","h","t">>, outer_right),
          Entry(<<"i","n","n","e","r">>, inner)>>, answer, delims,
        IF ~equals_normalized(answer, normalize(outer_left.s \o inner.s \o outer_right.s))
        THEN "semantic" ELSE "")

\* "if self.deletion:" is false for None and for the empty string
Deletion(clue, indicator, keep, delete, deletion, answer, delims) ==
    IndicatorVariant("Deletion", clue, indicator,
        <<Entry(<<"k","e","e","p">>, keep),
          Entry(<<"d","e","l","e","t","e">>, delete),
          Entry(<<"d","e","l","e","t","i","o","n">>, deletion)>>, answer, delims,
        IF ~equals_normalized(Joined(keep), answer) THEN "semantic"
        ELSE IF deletion.kind = "str" /\ deletion.s # <<>>
                  /\ ~equals_normalized(Joined(delete), deletion.s)
        THEN "deletion"
        ELSE "")

Hidden(clue, indicator, left, hidden, right, answer, delims) ==
    IndicatorVariant("Hidden", clue, indicator,
        <<Entry(<<"l","e","f","t">>, left),
          Entry(<<"h","i","d","d","e","n">>, hidden),
          Entry(<<"r","i","g","h","t">>, right)>>, answer, delims,
        IF ~equals_normalized(hidden.s, answer) THEN "semantic" ELSE "")

Homophone(clue, indicator, sound_alike, answer, delims) ==
    IndicatorVariant("Homophone", clue, indicator,
        <<Entry(<<"s","o","u","n","d","_","a","l","i","k","e">>, sound_alike)>>,
        answer, delims, "")

Reversal(clue, indicator, fodder, answer, delims) ==
    IndicatorVariant("Reversal", clue, indicator,
        <<Entry(<<"f","o","d","d","e","r">>, fodder)>>, answer, delims,
        IF ~equals_normalized(Reverse(normalize(fodder.s)), answer)
        THEN "semantic" ELSE "")

----------------------------------------------------------------------------
(* Configuration defaults, cry_config.py *)

DefaultDelims == <<"<", ">">>
DefaultSeparator == "|"

NoCall == [op |-> "none", outcome |-> "none", err |-> "", record |-> NoRecord]

----------------------------------------------------------------------------
(* Inputs of the matcher calls *)

Names == {<<"k">>, <<"j">>}

Tok(name) == bracketed_key(name, DefaultDelims)

Pieces == {Tok(<<"k">>), Tok(<<"j">>), <<"x">>}

SeqsUpTo(S, n) == UNION {[1..m -> S] : m \in 0..n}

Templates == {Join(p) : p \in SeqsUpTo(Pieces, MaxPieces)}

PartStrs == {<<"x">>, Tok(<<"k">>)}

ListElems == {<<"x">>, Tok(<<"k">>)}

Values ==
    {NoneValue, OtherValue}
    \cup {StrValue(s) : s \in PartStrs}
    \cup {ListValue(l) : l \in SeqsUpTo(ListElems, MaxListLen)}

\* dicts: the keys of a dict are distinct
PartsMaps ==
    {p \in SeqsUpTo([key : Names, value : Values], MaxEntries) :
        \A i, j \in DOMAIN p : i # j => p[i].key # p[j].key}

\* The text in which every placeholder occurrence of the template that has a
\* substitution is replaced by it, all at once: a single string takes the
\* first occurrence of its token, the i-th element of a list takes the i-th
\* occurrence.  seen[n] counts the occurrences of entry n passed so far.
RECURSIVE LiteralFrom(_, _, _, _)
LiteralFrom(t, m, i, seen) ==
    IF i > Len(t) THEN <<>>
    ELSE
      LET hits == {n \in DOMAIN m : MatchAt(t, Tok(m[n].key), i)}
      IN  IF hits = {}
          THEN <<t[i]>> \o LiteralFrom(t, m, i + 1, seen)
          ELSE
            LET n == CHOOSE h \in hits : TRUE
                v == m[n].value
                k == seen[n] + 1
                tok == Tok(m[n].key)
                new == IF v.kind = "str" /\ k = 1 THEN v.s
                       ELSE IF v.kind = "list" /\ k <= Len(v.l) THEN v.l[k]
                       ELSE tok
            IN  new \o LiteralFrom(t, m, i + Len(tok),
                                   [seen EXCEPT ![n] = k])

LiteralSubstitution(t, m) == LiteralFrom(t, m, 1, [n \in DOMAIN m |-> 0])

\* s with the delimiter characters taken out
RECURSIVE WithoutDelims(_)
WithoutDelims(s) ==
    IF s = <<>> THEN <<>>
    ELSE (IF Head(s) \in Range(DefaultDelims) THEN <<>> ELSE <<Head(s)>>)
         \o WithoutDelims(Tail(s))

ClueTextsFor(t, m) ==
    {LiteralSubstitution(t, m), WithoutDelims(LiteralSubstitution(t, m)), <<"x">>}

MatchArgs(t, m) ==
    {[op |-> "match", clue |-> c, indicator |-> t, parts |-> m] : c \in ClueTextsFor(t, m)}

NoArgs == [op |-> "none"]

----------------------------------------------------------------------------
(* The matcher under study: the two public forms applied to the same       *)
(* arguments.                                                              *)

InitMatch ==
    /\ indicator_delims = DefaultDelims
    /\ token_separator = DefaultSeparator
    /\ records = {}
    /\ last = NoCall
    /\ \E t \in Templates, m \in PartsMaps : args \in MatchArgs(t, m)
    /\ im_result = Uncalled
    /\ cim_result = Uncalled

IndicatorMatches ==
    /\ args.op = "match"
    /\ im_result' = indicator_matches(args.clue, args.indicator, args.parts,
                                      indicator_delims)
    /\ UNCHANGED <<indicator_delims, token_separator, records, last, args, cim_result>>

CheckIndicatorMatches ==
    /\ args.op = "match"
    /\ cim_result' = check_indicator_matches(args.clue, args.indicator, args.parts,
                                             indicator_delims)
    /\ UNCHANGED <<indicator_delims, token_separator, records, last, args, im_result>>

NextMatch == IndicatorMatches \/ CheckIndicatorMatches

SpecMatch == InitMatch /\ [][NextMatch]_vars


----------------------------------------------------------------------------
(* Properties of the matcher *)

TemplateErrors == {"not_found", "count", "type"}

CalledResults ==
    IF args.op = "match"
    THEN {r \in {im_result, cim_result} : r.outcome # "uncalled"}
    ELSE {}

BothCalled == im_result.outcome # "uncalled" /\ cim_result.outcome # "uncalled"

TokenOf(n) == bracketed_key(args.parts[n].key, indicator_delims)

\* what the loop has made of the template when it reaches entry n
WorkingBefore(n) ==
    SubstituteFrom(args.indicator, SubSeq(args.parts, 1, n - 1), 1, indicator_delims)

\* the template after all substitutions
FinalWorking == SubstituteFrom(args.indicator, args.parts, 1, indicator_delims)

\* C1 as stated: check_indicator_matches raises if and only if
\* indicator_matches returns False, for every clue, template and map.
C1_RaisesIffReturnsFalse ==
    BothCalled =>
        ((cim_result.outcome = "raise")
            <=> (im_result.outcome = "return" /\ im_result.value = "False"))

\* C1 amended: check_indicator_matches raises if and only if
\* indicator_matches does not return True.  On a match error
\* indicator_matches returns False and check_indicator_matches raises the
\* match error; on a template error both raise the same error, and
\* indicator_matches returns False for no template error.
C1_RaisesIffNotTrue ==
    BothCalled =>
        /\ (cim_result.outcome = "raise") <=> (im_result # Returned("True"))
        /\ (im_result = Returned("False"))
              <=> (cim_result.outcome = "raise" /\ cim_result.err = "match")
        /\ (im_result.outcome = "raise") <=> (cim_result.err \in TemplateErrors)
        /\ (im_result.outcome = "raise") => (cim_result = im_result)

C1_Witness ==
    /\ BothCalled
    /\ im_result.outcome = "raise"
    /\ im_result.err \in {"not_found", "count"}
    /\ cim_result.outcome = "raise"

\* the occurrence counts of map m are consistent with template t
Consistent(t, m) ==
    \A n \in DOMAIN m :
        LET v == m[n].value
            tok == Tok(m[n].key)
        IN  /\ v.kind # "other"
            /\ v.kind = "str" => Count(t, tok) >= 1
            /\ v.kind = "list" => Count(t, tok) = Len(v.l)

\* C2: generate-then-match always succeeds: when the counts of the map are
\* consistent with the template and the clue text is the literal
\* substitution of the map into the template, the match succeeds, whatever
\* the substituted strings are.
C2_RoundTrip ==
    \A r \in CalledResults :
        (/\ Consistent(args.indicator, args.parts)
         /\ args.clue = LiteralSubstitution(args.indicator, args.parts))
        => r \in {Returned("True"), Returned("None")}

\* C3 as stated: a list-valued substitution whose length differs from the
\* number of occurrences of its token in the template is never silently
\* accepted: both forms raise a template error, and the error about that
\* token is the count-mismatch error naming the list length.
C3_TemplateCountMismatch ==
    \A r \in CalledResults : \A n \in DOMAIN args.parts :
        LET v == args.parts[n].value
            occurrences == Count(args.indicator, TokenOf(n))
        IN  (v.kind = "list" /\ occurrences # Len(v.l)) =>
                /\ r.outcome = "raise"
                /\ r.err \in TemplateErrors
                /\ r.token = TokenOf(n) => (r.err = "count" /\ r.len = Len(v.l))

\* C3 amended: when the loop reaches a list-valued entry (no earlier entry
\* has raised) and the number of occurrences of its token in the working
\* template, i.e. the template after the earlier entries' substitutions,
\* differs from the list length, both forms raise the count-mismatch error
\* naming the token, that occurrence count and the list length.
C3_WorkingCountMismatch ==
    \A r \in CalledResults : \A n \in DOMAIN args.parts :
        LET v == args.parts[n].value
            before == WorkingBefore(n)
            occurrences == Count(before.replaced, TokenOf(n))
        IN  (v.kind = "list" /\ ~before.raised /\ occurrences # Len(v.l)) =>
                /\ r.outcome = "raise"
                /\ r.err = "count"
                /\ r.token = TokenOf(n)
                /\ r.count = occurrences
                /\ r.len = Len(v.l)

C3_Witness ==
    /\ BothCalled
    /\ \E n \in DOMAIN args.parts :
          /\ args.parts[n].value.kind = "list"
          /\ ~WorkingBefore(n).raised
          /\ Count(WorkingBefore(n).replaced, TokenOf(n)) > Len(args.parts[n].value.l)
          /\ im_result.err = "count"
          /\ cim_result.err = "count"

\* C4 as stated: every entry whose value is a single string or a list of
\* any length needs its token in the template at least once; otherwise the
\* matcher raises a template error and does not reach the comparison.
C4_TokenInTemplate ==
    \A r \in CalledResults : \A n \in DOMAIN args.parts :
        (/\ args.parts[n].value.kind \in {"str", "list"}
         /\ Count(args.indicator, TokenOf(n)) = 0)
        => (r.outcome = "raise" /\ r.err \in TemplateErrors)

\* C4 amended: when the loop reaches an entry whose value is a single string
\* or a non-empty list and its token does not occur in the working template
\* (the template after the earlier entries' substitutions), the matcher
\* raises the template error of that entry and does not reach the
\* comparison; an empty list whose token does not occur raises nothing.
C4_TokenInWorking ==
    \A r \in CalledResults : \A n \in DOMAIN args.parts :
        LET v == args.parts[n].value
            before == WorkingBefore(n)
            absent == ~before.raised /\ Count(before.replaced, TokenOf(n)) = 0
        IN  /\ (absent /\ v.kind = "str") =>
                (r.outcome = "raise" /\ r.err = "not_found" /\ r.token = TokenOf(n))
            /\ (absent /\ v.kind = "list" /\ v.l # <<>>) =>
                (r.outcome = "raise" /\ r.err = "count" /\ r.token = TokenOf(n)
                    /\ r.count = 0)
            /\ (absent /\ v.kind = "list" /\ v.l = <<>>) => r.token # TokenOf(n)

C4_Witness ==
    /\ BothCalled
    /\ \E n \in DOMAIN args.parts :
          /\ args.parts[n].value.kind = "str"
          /\ ~WorkingBefore(n).raised
          /\ ~Contains(WorkingBefore(n).replaced, TokenOf(n))
          /\ im_result.err = "not_found"
          /\ cim_result.err = "not_found"

\* C5: a placeholder token still in the template after all substitutions
\* makes the match fail: a substituted template that contains a placeholder
\* token never matches a clue text without delimiter characters.
C5_LeftoverTokenFails ==
    (/\ args.op = "match"
     /\ ~FinalWorking.raised
     /\ \E name \in Names : Contains(FinalWorking.replaced, Tok(name))
     /\ is_clue(args.clue, indicator_delims))
    => /\ im_result.outcome # "uncalled" => im_result = Returned("False")
       /\ cim_result.outcome # "uncalled" => cim_result.outcome = "raise"

----------------------------------------------------------------------------
(* Inputs of the constructor calls *)

Str(s) == StrValue(s)

fodder_token == Tok(<<"f","o","d","d","e","r">>)
sound_alike_token == Tok(<<"s","o","u","n","d","_","a","l","i","k","e">>)
left_token == Tok(<<"l","e","f","t">>)
hidden_token == Tok(<<"h","i","d","d","e","n">>)
right_token == Tok(<<"r","i","g","h","t">>)
outer_left_token == Tok(<<"o","u","t","e","r","_","l","e","f","t">>)
outer_right_token == Tok(<<"o","u","t","e","r","_","r","i","g","h","t">>)
inner_token == Tok(<<"i","n","n","e","r">>)
keep_token == Tok(<<"k","e","e","p">>)
delete_token == Tok(<<"d","e","l","e","t","e">>)
deletion_token == Tok(<<"d","e","l","e","t","i","o","n">>)

AltDelims == <<"[", "]">>

ClueChars == {"a", "b", "<"}
AnswerChars == {"A", "B", "-", "\n"}

ClueTexts == SeqsUpTo(ClueChars, MaxClueLen) \cup {<<"a", "]">>}
Answers == SeqsUpTo(AnswerChars, MaxAnswerLen)

\* objects the caller has built before the call under study: a Definition, a
\* Combination of it, and variants whose clue is that Combination
Built(result) == IF result.ok THEN {result.record} ELSE {}

PoolDefinitions ==
    Built(Definition(ClueStr(<<"b">>), <<"A">>))
    \cup Built(Definition(ClueStr(<<"a", "b">>), <<"B", "A">>))

PoolCombinations ==
    UNION {Built(Combination(<<"a", "b">>, <<"a">>, d, <<>>, <<"a", "A">>)) :
           d \in PoolDefinitions}

PoolNested ==
    UNION {Built(Reversal(k, <<"a">> \o fodder_token, Str(<<"A">>), <<"A">>,
                          DefaultDelims))
           \cup Built(Definition(k, <<"A">>)) : k \in PoolCombinations}

PoolVariants == PoolDefinitions \cup PoolNested

ClueSources == {ClueStr(s) : s \in ClueTexts} \cup PoolCombinations

CallsOfDefinition ==
    {[op |-> "Definition", clue |-> c, answer |-> a] :
        c \in ClueSources, a \in Answers}

FodderCalls(op, token) ==
    {[op |-> op, clue |-> c, indicator |-> i, fodder |-> f, answer |-> a] :
        c \in ClueSources,
        i \in {token, <<"a">> \o token},
        f \in {Str(<<"a", "b">>), Str(<<"A">>)},
        a \in Answers \cup {<<"B", "-", "A">>}}

CallsOfHidden ==
    {[op |-> "Hidden", clue |-> c, indicator |-> i, left |-> l, hidden |-> h,
      right |-> r, answer |-> a] :
        c \in ClueSources,
        i \in {left_token \o hidden_token \o right_token, hidden_token \o right_token,
               hidden_token},
        l \in {NoneValue, Str(<<"a">>)},
        h \in {Str(<<"a">>), Str(<<"b">>), Str(right_token)},
        r \in {Str(<<>>), Str(<<"b">>)},
        a \in Answers \cup {<<"R", "I", "G", "H", "T">>}}

CallsOfContainer ==
    {[op |-> "Container", clue |-> c, indicator |-> i, outer_left |-> l,
      outer_right |-> r, inner |-> n, answer |-> a] :
        c \in ClueSources,
        i \in {outer_left_token \o inner_token \o outer_right_token,
               inner_token \o outer_left_token \o outer_right_token},
        l \in {Str(<<"a">>), Str(<<>>)},
        r \in {Str(<<"b">>), Str(<<>>)},
        n \in {Str(<<"b">>), Str(<<>>)},
        a \in Answers}

CallsOfDeletion ==
    {[op |-> "Deletion", clue |-> c, indicator |-> i, keep |-> k, delete |-> d,
      deletion |-> x, answer |-> a] :
        c \in ClueSources,
        i \in {keep_token \o delete_token, keep_token \o delete_token \o keep_token},
        k \in {Str(<<"a">>), ListValue(<<<<"a">>>>), ListValue(<<<<"a">>, <<"b">>>>)},
        d \in {Str(<<"b">>), Str(<<>>), ListValue(<<<<"b">>>>)},
        x \in {NoneValue, Str(<<"b">>)},
        a \in Answers}
    \cup
    {[op |-> "Deletion", clue |-> ClueStr(c),
      indicator |-> keep_token \o delete_token \o deletion_token,
      keep |-> Str(<<"a">>), delete |-> d, deletion |-> x, answer |-> a] :
        c \in {<<"a", "b">>, <<"a", "b", "b">>, <<"a", "b", "a">>},
        d \in {Str(<<"b">>), ListValue(<<<<"b">>>>)},
        x \in {NoneValue, Str(<<>>), Str(<<"b">>), Str(<<"a">>)},
        a \in {<<"A">>, <<"B">>}}

CallsOfCombination ==
    {[op |-> "Combination", input |-> i, prefix |-> p, combined |-> v,
      suffix |-> s, output |-> o] :
        i \in ClueTexts, p \in {<<>>, <<"a">>}, v \in PoolVariants,
        s \in {<<>>, <<"b">>}, o \in ClueTexts \cup {<<"a", "A">>}}

\* the objects an argument list refers to, and the objects inside them
RECURSIVE ObjectsIn(_)
ObjectsIn(object) ==
    IF object.type = "Combination"
    THEN {object} \cup ObjectsIn(object.combined)
    ELSE IF object.type \in VariantTypes
    THEN {object} \cup ObjectsIn(object.clue)
    ELSE {}

Existing(a) ==
    IF a.op = "Combination" THEN ObjectsIn(a.combined) ELSE ObjectsIn(a.clue)

----------------------------------------------------------------------------
(* Calls made by a caller that constructs objects one after another *)

RunClues == {ClueStr(<<"a", "b">>), ClueStr(<<"b">>), ClueStr(<<"a", "<">>)}

RunSources == RunClues \cup {r \in records : r.type = "Combination"}

RunAnswers == {<<"A">>, <<"B", "A">>, <<"a">>}

RunCalls(op) ==
    IF op = "Definition"
    THEN {[op |-> op, clue |-> c, answer |-> a] : c \in RunSources, a \in RunAnswers}
    ELSE IF op \in {"Anagram", "Reversal"}
    THEN {[op |-> op, clue |-> c, indicator |-> i, fodder |-> f, answer |-> a] :
            c \in RunSources, i \in {fodder_token, <<"a">> \o fodder_token},
            f \in {Str(<<"a", "b">>), Str(<<"A">>)}, a \in RunAnswers}
    ELSE IF op = "Homophone"
    THEN {[op |-> op, clue |-> c, indicator |-> sound_alike_token,
           fodder |-> Str(<<"a", "b">>), answer |-> a] :
            c \in RunSources, a \in RunAnswers}
    ELSE IF op = "Hidden"
    THEN {[op |-> op, clue |-> c,
           indicator |-> left_token \o hidden_token \o right_token,
           left |-> l, hidden |-> Str(<<"a">>), right |-> Str(<<"b">>),
           answer |-> a] :
            c \in RunSources, l \in {NoneValue, Str(<<>>)}, a \in RunAnswers}
    ELSE IF op = "Container"
    THEN {[op |-> op, clue |-> c,
           indicator |-> outer_left_token \o inner_token \o outer_right_token,
           outer_left |-> Str(<<"b">>), outer_right |-> Str(<<>>),
           inner |-> Str(<<"a">>), answer |-> a] :
            c \in RunSources, a \in RunAnswers}
    ELSE IF op = "Deletion"
    THEN {[op |-> op, clue |-> c, indicator |-> keep_token \o delete_token,
           keep |-> k, delete |-> Str(<<"b">>), deletion |-> NoneValue,
           answer |-> a] :
            c \in RunSources, k \in {Str(<<"a">>), ListValue(<<<<"a">>>>)},
            a \in RunAnswers}
    ELSE {[op |-> op, input |-> <<"a", "b">>, prefix |-> <<"a">>, combined |-> v,
           suffix |-> <<>>, output |-> o] :
            v \in {r \in records : r.type \in VariantTypes},
            o \in {<<"a", "A">>, <<"a", "b">>}}

\* the calls of constructor op that can happen next: the call under study,
\* once, or any call of a running caller while it has room for the object
CallsOf(op) ==
    IF args.op = "none"
    THEN IF Cardinality(records) < MaxRecords THEN RunCalls(op) ELSE {}
    ELSE IF args.op = op /\ last = NoCall THEN {args}
    ELSE {}

----------------------------------------------------------------------------
(* Constructor calls.  A dataclass constructor returns the object when     *)
(* __post_init__ returns and raises, leaving no object, when it raises.    *)

Construct_RestoringDefault(op, result) ==
    /\ last' = [op |-> op, outcome |-> IF result.ok THEN "ok" ELSE "raise",
                err |-> result.err, record |-> result.record]
    /\ records' = IF result.ok THEN records \cup {result.record} ELSE records
    /\ indicator_delims' = DefaultDelims
    /\ UNCHANGED <<token_separator, args, im_result, cim_result>>
Construct(op, result) ==
    /\ last' = [op |-> op, outcome |-> IF result.ok THEN "ok" ELSE "raise",
                err |-> result.err, record |-> result.record]
    /\ records' = IF result.ok THEN records \cup {result.record} ELSE records
    /\ UNCHANGED <<indicator_delims, token_separator, args, im_result, cim_result>>

NewDefinition ==
    \E a \in CallsOf("Definition") :
        Construct("Definition", Definition(a.clue, a.answer))

NewAnagram ==
    \E a \in CallsOf("Anagram") :
        Construct("Anagram",
            Anagram(a.clue, a.indicator, a.fodder, a.answer, indicator_delims))

NewContainer ==
    \E a \in CallsOf("Container") :
        Construct("Container",
            Container(a.clue, a.indicator, a.outer_left, a.outer_right, a.inner,
                      a.answer, indicator_delims))

NewDeletion ==
    \E a \in CallsOf("Deletion") :
        Construct("Deletion",
            Deletion(a.clue, a.indicator, a.keep, a.delete, a.deletion, a.answer,
                     indicator_delims))

NewHidden ==
    \E a \in CallsOf("Hidden") :
        Construct("Hidden",
            Hidden(a.clue, a.indicator, a.left, a.hidden, a.right, a.answer,
                   indicator_delims))

NewHomophone ==
    \E a \in CallsOf("Homophone") :
        Construct("Homophone",
            Homophone(a.clue, a.indicator, a.fodder, a.answer, indicator_delims))

NewReversal ==
    \E a \in CallsOf("Reversal") :
        Construct("Reversal",
            Reversal(a.clue, a.indicator, a.fodder, a.answer, indicator_delims))

NewCombination ==
    \E a \in CallsOf("Combination") :
        Construct("Combination",
            Combination(a.input, a.prefix, a.combined, a.suffix, a.output))

----------------------------------------------------------------------------
(* A list passed as keep or delete is stored in the frozen dataclass as it *)
(* is: the caller can still assign to its elements.                        *)

\* object with every occurrence of old inside it replaced by new
RECURSIVE Replaced(_, _, _)
Replaced(object, old, new) ==
    IF object = old THEN new
    ELSE IF object.type = "Combination"
    THEN [object EXCEPT !.combined = Replaced(@, old, new)]
    ELSE IF object.type \in VariantTypes
    THEN [object EXCEPT !.clue = Replaced(@, old, new)]
    ELSE object

\* record.<part>[i] = v
ListSetItem ==
    /\ args.op = "none"
    /\ \E r \in {x \in records : x.type = "Deletion"} :
       \E n \in DOMAIN r.parts :
          /\ r.parts[n].value.kind = "list"
          /\ \E i \in DOMAIN r.parts[n].value.l, v \in {<<"b">>} :
                LET new == [r EXCEPT !.parts[n].value.l[i] = v]
                IN  /\ new # r
                    /\ records' = {Replaced(x, r, new) : x \in records}
                    /\ last' = [op |-> "list_setitem", outcome |-> "ok", err |-> "",
                                record |-> new]
    /\ UNCHANGED <<indicator_delims, token_separator, args, im_result, cim_result>>

----------------------------------------------------------------------------
(* Configuration, cry_config.py.  An assigned value is a tuple of str or   *)
(* some other object.                                                      *)

TupleOf(items) == [is_tuple |-> TRUE, items |-> items]
NotATuple == [is_tuple |-> FALSE, items |-> <<>>]

DelimValues ==
    {TupleOf(<<<<"<">>, <<">">>>>), TupleOf(<<<<"[">>, <<"]">>>>),
     TupleOf(<<<<"<">>>>), TupleOf(<<<<"<", "<">>, <<">">>>>), NotATuple}

\* isinstance(value, tuple) and len(value) == 2
\* and all(isinstance(v, str) and len(v) == 1 for v in value)
ValidDelims_AnyLength(value) ==
    /\ value.is_tuple
    /\ \A n \in DOMAIN value.items : Len(value.items[n]) = 1
ValidDelims(value) ==
    /\ value.is_tuple
    /\ Len(value.items) = 2
    /\ \A n \in DOMAIN value.items : Len(value.items[n]) = 1

\* indicator_delims.setter
SetIndicatorDelims ==
    /\ args.op = "none"
    /\ \E value \in DelimValues :
          IF ~ValidDelims(value)
          THEN /\ last' = [op |-> "set_indicator_delims", outcome |-> "raise",
                           err |-> "ValueError", record |-> NoRecord]
               /\ UNCHANGED indicator_delims
          ELSE /\ indicator_delims' =
                     [n \in DOMAIN value.items |-> value.items[n][1]]
               /\ last' = [op |-> "set_indicator_delims", outcome |-> "ok",
                           err |-> "", record |-> NoRecord]
    /\ UNCHANGED <<token_separator, records, args, im_result, cim_result>>

\* token_separator.setter; a value that is not a str is modelled by <<>>
SetTokenSeparator ==
    /\ args.op = "none"
    /\ \E value \in {<<"|">>, <<"/">>, <<"|", "|">>, <<>>} :
          IF Len(value) # 1
          THEN /\ last' = [op |-> "set_token_separator", outcome |-> "raise",
                           err |-> "ValueError", record |-> NoRecord]
               /\ UNCHANGED token_separator
          ELSE /\ token_separator' = value[1]
               /\ last' = [op |-> "set_token_separator", outcome |-> "ok",
                           err |-> "", record |-> NoRecord]
    /\ UNCHANGED <<indicator_delims, records, args, im_result, cim_result>>

----------------------------------------------------------------------------
(* One constructor call under study, on drawn arguments *)

InitCtor ==
    /\ indicator_delims \in {DefaultDelims, AltDelims}
    /\ token_separator = DefaultSeparator
    /\ \/ args \in CallsOfDefinition
       \/ args \in FodderCalls("Anagram", fodder_token)
       \/ args \in FodderCalls("Reversal", fodder_token)
       \/ args \in FodderCalls("Homophone", sound_alike_token)
       \/ args \in CallsOfHidden
       \/ args \in CallsOfContainer
       \/ args \in CallsOfDeletion
       \/ args \in CallsOfCombination
    /\ records = Existing(args)
    /\ last = NoCall
    /\ im_result = Uncalled
    /\ cim_result = Uncalled

Constructors ==
    \/ NewDefinition
    \/ NewAnagram
    \/ NewContainer
    \/ NewDeletion
    \/ NewHidden
    \/ NewHomophone
    \/ NewReversal
    \/ NewCombination

SpecCtor == InitCtor /\ [][Constructors]_vars

----------------------------------------------------------------------------
(* A caller that assigns the configuration and constructs objects *)

Init ==
    /\ indicator_delims = DefaultDelims
    /\ token_separator = DefaultSeparator
    /\ records = {}
    /\ last = NoCall
    /\ args = NoArgs
    /\ im_result = Uncalled
    /\ cim_result = Uncalled

Next ==
    \/ SetIndicatorDelims
    \/ SetTokenSeparator
    \/ NewDefinition
    \/ NewAnagram
    \/ NewContainer
    \/ NewDeletion
    \/ NewHidden
    \/ NewHomophone
    \/ NewReversal
    \/ NewCombination
    \/ ListSetItem

Spec == Init /\ [][Next]_vars

----------------------------------------------------------------------------
(* Properties of the constructors *)

\* a non-empty string of uppercase letters, spaces and hyphens
AnswerForm(s) == s # <<>> /\ \A i \in DOMAIN s : AnswerChar(s[i])

\* the constructor call that would build the variant or Combination r again
Reconstruct(r, delims) ==
    IF r.type = "Definition" THEN Definition(r.clue, r.answer)
    ELSE IF r.type = "Anagram"
    THEN Anagram(r.clue, r.indicator, r.parts[1].value, r.answer, delims)
    ELSE IF r.type = "Reversal"
    THEN Reversal(r.clue, r.indicator, r.parts[1].value, r.answer, delims)
    ELSE IF r.type = "Homophone"
    THEN Homophone(r.clue, r.indicator, r.parts[1].value, r.answer, delims)
    ELSE IF r.type = "Hidden"
    THEN Hidden(r.clue, r.indicator, r.parts[1].value, r.parts[2].value,
                r.parts[3].value, r.answer, delims)
    ELSE IF r.type = "Container"
    THEN Container(r.clue, r.indicator, r.parts[1].value, r.parts[2].value,
                   r.parts[3].value, r.answer, delims)
    ELSE IF r.type = "Deletion"
    THEN Deletion(r.clue, r.indicator, r.parts[1].value, r.parts[2].value,
                  r.parts[3].value, r.answer, delims)
    ELSE Combination(r.input, r.prefix, r.combined, r.suffix, r.output)

\* every object that exists, the nested ones included
AllObjects == UNION {ObjectsIn(r) : r \in records}

\* C6: constructing any of the seven clue variants fails with the clue
\* format error when its clue text contains one of the currently configured
\* indicator delimiter characters.
C6_DelimiterRejected ==
    (/\ last.op \in VariantTypes
     /\ args.op = last.op
     /\ ~is_clue(clue_input(args.clue), indicator_delims))
    => (last.outcome = "raise" /\ last.err = "clue_format")

\* C7: every constructed clue variant has an answer that is a non-empty
\* string of uppercase letters, spaces and hyphens; a construction with any
\* other answer raises, with the answer format error when the clue text is
\* in clue form.
C7_AnswerForm ==
    /\ \A r \in AllObjects : r.type \in VariantTypes => AnswerForm(r.answer)
    /\ (last.op \in VariantTypes /\ args.op = last.op /\ ~AnswerForm(args.answer))
        => /\ last.outcome = "raise"
           /\ is_clue(clue_input(args.clue), indicator_delims)
                 => last.err = "answer_format"

\* C8: every object that exists satisfies its construction checks (under a
\* delimiter pair the configuration can hold): no operation of the caller
\* changes the fields of a constructed object, the elements of a list-valued
\* keep or delete included, and a failed construction leaves no object.
C8_RecordsStayValid ==
    /\ \A r \in AllObjects :
          \E delims \in {DefaultDelims, AltDelims} : Reconstruct(r, delims) = Success(r)
    /\ last.outcome = "raise" => last.record = NoRecord

InputConsistent(c) ==
    normalize(c.input) = normalize(c.prefix \o clue_input(c.combined.clue) \o c.suffix)

OutputConsistent(c) ==
    normalize(c.output) = normalize(c.prefix \o c.combined.answer \o c.suffix)

\* C9: every constructed Combination has normalize(input) =
\* normalize(prefix + combined clue text + suffix) and normalize(output) =
\* normalize(prefix + combined.answer + suffix); the construction raises,
\* and leaves no object, when one of the two does not hold.
C9_CombinationConsistent ==
    /\ \A r \in AllObjects :
          r.type = "Combination" => (InputConsistent(r) /\ OutputConsistent(r))
    /\ (last.op = "Combination" /\ args.op = "Combination") =>
          /\ last.outcome = "ok" =>
                (last.record \in records /\ last.record.input = args.input
                    /\ last.record.output = args.output)
          /\ ~(InputConsistent(args) /\ OutputConsistent(args)) =>
                (last.outcome = "raise" /\ records = Existing(args))

C9_Witness ==
    /\ args.op = "Combination"
    /\ last.op = "Combination"
    /\ last.outcome = "ok"
    /\ last.record \in records
    /\ args.prefix # <<>>

\* C10: a Combination whose combined variant has a Combination as its clue
\* is constructed whenever its input and output are consistent with the
\* nested variant's clue text and answer.
C10_NestedCombination ==
    (/\ last.op = "Combination"
     /\ args.op = "Combination"
     /\ args.combined.clue.type = "Combination"
     /\ InputConsistent(args)
     /\ OutputConsistent(args))
    => (last.outcome = "ok" /\ last.record \in records)

----------------------------------------------------------------------------
(* Properties of the indicator-bearing variants *)

IndicatorTypes == VariantTypes \ {"Definition"}

\* the dict a variant's __post_init__ passes to self.check_indicator_matches
PartsOfCall(a) ==
    IF a.op \in {"Anagram", "Reversal"}
    THEN <<Entry(<<"f","o","d","d","e","r">>, a.fodder)>>
    ELSE IF a.op = "Homophone"
    THEN <<Entry(<<"s","o","u","n","d","_","a","l","i","k","e">>, a.fodder)>>
    ELSE IF a.op = "Hidden"
    THEN <<Entry(<<"l","e","f","t">>, a.left),
           Entry(<<"h","i","d","d","e","n">>, a.hidden),
           Entry(<<"r","i","g","h","t">>, a.right)>>
    ELSE IF a.op = "Container"
    THEN <<Entry(<<"o","u","t","e","r","_","l","e","f","t">>, a.outer_left),
           Entry(<<"o","u","t","e","r","_","r","i","g","h","t">>, a.outer_right),
           Entry(<<"i","n","n","e","r">>, a.inner)>>
    ELSE <<Entry(<<"k","e","e","p">>, a.keep),
           Entry(<<"d","e","l","e","t","e">>, a.delete),
           Entry(<<"d","e","l","e","t","i","o","n">>, a.deletion)>>

MatcherErrors == {"match", "not_found", "count", "type"}

\* C11: an indicator-bearing variant whose clue and answer pass the format
\* checks is constructed only if its indicator matches the output projection
\* of its clue (Combination.output for a Combination, the string itself for
\* a string, for which both projections agree), and raises the matcher's
\* error when that text does not match, whatever Combination.input is.
C11_MatchesOutput ==
    (/\ last.op \in IndicatorTypes
     /\ args.op = last.op
     /\ ClueType_post_init(args.clue, args.answer, indicator_delims) = "")
    => LET matched == indicator_matches(clue_output(args.clue), args.indicator,
                                        PartsOfCall(args), indicator_delims)
       IN  /\ last.outcome = "ok" => matched = Returned("True")
           /\ matched # Returned("True") =>
                 (last.outcome = "raise" /\ last.err \in MatcherErrors)
           /\ args.clue.type = "str" =>
                 (clue_input(args.clue) = args.clue.text
                    /\ clue_output(args.clue) = args.clue.text)

\* a variant constructed on a Combination whose input does not match
C11_Witness ==
    /\ last.op \in IndicatorTypes
    /\ args.op = last.op
    /\ last.outcome = "ok"
    /\ args.clue.type = "Combination"
    /\ indicator_matches(clue_input(args.clue), args.indicator,
                         PartsOfCall(args), indicator_delims) # Returned("True")

C13_ShortReversalFails ==
    (last.op = "Reversal" /\ args.op = "Reversal")
    => /\ Len(args.answer) < 2 => last.outcome = "raise"
       /\ last.outcome = "ok" => Reverse(normalize(args.fodder.s)) = args.answer

\* C14: for every constructed Hidden the normalized answer occurs as a
\* contiguous substring of the normalized output projection of the clue.
C14_AnswerHiddenInClue ==
    (last.op = "Hidden" /\ args.op = "Hidden" /\ last.outcome = "ok")
    => \/ normalize(args.answer) = <<>>
       \/ Contains(normalize(clue_output(args.clue)), normalize(args.answer))

\* C15: whenever a Deletion is constructed with a deletion that is not
\* None, the joined delete part normalize-equals deletion; a construction
\* with a given deletion that disagrees with the deleted part raises.
C15_GivenDeletionAgrees ==
    (last.op = "Deletion" /\ args.op = "Deletion" /\ args.deletion.kind = "str")
    => LET agrees == equals_normalized(Joined(args.delete), args.deletion.s)
       IN  /\ last.outcome = "ok" => agrees
           /\ ~agrees => last.outcome = "raise"

----------------------------------------------------------------------------
(* solutions.py.  The module imports * from clues, then from               *)
(* cryptic_strings, then from clue_text: the names check_answer_pattern,   *)
(* check_answer, equals_normalized and answer_matches_pattern it uses are   *)
(* those of cryptic_strings.py, and clue_input and Combination are those of *)
(* clue_text.py.                                                            *)

\* cryptic_strings.normalize
RECURSIVE cryptic_strings_normalize(_)
cryptic_strings_normalize(s) ==
    IF s = <<>> THEN <<>>
    ELSE (IF isalnum(Head(s)) THEN upper(Head(s)) ELSE <<>>)
         \o cryptic_strings_normalize(Tail(s))

\* cryptic_strings.equals_normalized
cryptic_strings_equals_normalized(a, b) ==
    cryptic_strings_normalize(a) = cryptic_strings_normalize(b)

\* the string without the newline that "$" lets it end with
BeforeFinalNewline(s) ==
    IF s # <<>> /\ s[Len(s)] = "\n" THEN SubSeq(s, 1, Len(s) - 1) ELSE s

\* cryptic_strings.is_answer: re.match(r'^[A-Z \-]+$', s) is not None
cryptic_strings_is_answer(s) ==
    LET body == BeforeFinalNewline(s)
    IN  /\ body # <<>>
        /\ \A i \in DOMAIN body : IsUpper(body[i]) \/ body[i] \in {" ", "-"}

\* cryptic_strings.is_answer_pattern: re.match(r'^[A-Z_ \-]+$', s) is not None
cryptic_strings_is_answer_pattern(s) ==
    LET body == BeforeFinalNewline(s)
    IN  /\ body # <<>>
        /\ \A i \in DOMAIN body : IsUpper(body[i]) \/ body[i] \in {"_", " ", "-"}

\* ''.join(c for c in answer if c.isalpha())
RECURSIVE OnlyAlpha(_)
OnlyAlpha(s) ==
    IF s = <<>> THEN <<>>
    ELSE (IF isalpha(Head(s)) THEN <<Head(s)>> ELSE <<>>) \o OnlyAlpha(Tail(s))

Whitespace == {" ", "\n"}

\* re.match('^' + p + '$', s, re.IGNORECASE) for the regular expression made
\* from the pattern p: "_" is ".", " " is "\s*", "-" is "-?", any other
\* character of a pattern stands for itself
RECURSIVE PatternRegexMatches(_, _)
PatternRegexMatches(p, s) ==
    IF p = <<>> THEN s = <<>> \/ s = <<"\n">>
    ELSE IF Head(p) = "_"
    THEN s # <<>> /\ Head(s) # "\n" /\ PatternRegexMatches(Tail(p), Tail(s))
    ELSE IF Head(p) = " "
    THEN \/ PatternRegexMatches(Tail(p), s)
         \/ s # <<>> /\ Head(s) \in Whitespace /\ PatternRegexMatches(p, Tail(s))
    ELSE IF Head(p) = "-"
    THEN \/ PatternRegexMatches(Tail(p), s)
         \/ s # <<>> /\ Head(s) = "-" /\ PatternRegexMatches(Tail(p), Tail(s))
    ELSE s # <<>> /\ upper(Head(s)) = upper(Head(p))
         /\ PatternRegexMatches(Tail(p), Tail(s))

\* cryptic_strings.answer_matches_pattern, called with an answer and a
\* pattern that passed check_answer and check_answer_pattern
cryptic_strings_answer_matches_pattern(answer, answer_pattern) ==
    PatternRegexMatches(answer_pattern, OnlyAlpha(answer))

\* clue_text.Combination: the same checks as clue_sources.Combination, in a
\* class of its own
clue_text_Combination(input, prefix, combined, suffix, output) ==
    IF combined.clue.type # "str" THEN Failure("TypeError")
    ELSE IF ~cryptic_strings_equals_normalized(input,
                 prefix \o combined.clue.text \o suffix)
    THEN Failure("combination")
    ELSE IF ~cryptic_strings_equals_normalized(output,
                 prefix \o combined.answer \o suffix)
    THEN Failure("combination")
    ELSE Success([type |-> "clue_text.Combination", input |-> input,
                  prefix |-> prefix, combined |-> combined, suffix |-> suffix,
                  output |-> output])

\* clue_text.clue_input: the str itself, the input of a clue_text.Combination,
\* and None (the function falls off its end) for any other object
clue_text_clue_input(clue) ==
    IF clue.type = "str" THEN StrValue(clue.text)
    ELSE IF clue.type = "clue_text.Combination" THEN StrValue(clue.input)
    ELSE NoneValue

\* not equals_normalized(self.clue, joined_clues) is false
ConcatMatches_AnyOrder(clue, text1, text2) ==
    \/ cryptic_strings_equals_normalized(clue, text1 \o <<" ">> \o text2)
    \/ cryptic_strings_equals_normalized(clue, text2 \o <<" ">> \o text1)
ConcatMatches(clue, text1, text2) ==
    cryptic_strings_equals_normalized(clue, text1 \o <<" ">> \o text2)

\* self.solution1 == self.solution2: the __eq__ of a dataclass compares the
\* classes and then the fields
IdenticalSolutions_ByIdentity(solution1, solution2) == FALSE
IdenticalSolutions(solution1, solution2) == solution1 = solution2

\* self.solution1.answer != self.solution2.answer
AnswersDiffer_Normalized(a, b) ==
    cryptic_strings_normalize(a) # cryptic_strings_normalize(b)
AnswersDiffer(a, b) == a # b

\* DoubleSolution.__post_init__
DoubleSolution(clue, answer_pattern, solution1, solution2, answer) ==
    LET text1 == clue_text_clue_input(solution1.clue)
        text2 == clue_text_clue_input(solution2.clue)
    IN  IF ~cryptic_strings_is_answer_pattern(answer_pattern)
        THEN Failure("pattern_format")
        ELSE IF ~cryptic_strings_is_answer(answer)
        THEN Failure("answer_format")
        ELSE IF text1.kind = "none" \/ text2.kind = "none"
        THEN Failure("TypeError")
        ELSE IF ~ConcatMatches(clue, text1.s, text2.s)
        THEN Failure("concatenation")
        ELSE IF IdenticalSolutions(solution1, solution2)
        THEN Failure("identical")
        ELSE IF AnswersDiffer(solution1.answer, solution2.answer)
        THEN Failure("answers_differ")
        ELSE IF AnswersDiffer(solution1.answer, answer)
        THEN Failure("answer_differs")
        ELSE IF ~cryptic_strings_answer_matches_pattern(answer, answer_pattern)
        THEN Failure("pattern")
        ELSE Success([type |-> "DoubleSolution", clue |-> clue,
                      answer_pattern |-> answer_pattern,
                      solution1 |-> solution1, solution2 |-> solution2,
                      answer |-> answer])

----------------------------------------------------------------------------
(* One DoubleSolution call under study, on drawn arguments *)

\* the original surface text of a solution's clue
SurfaceText(solution) ==
    IF solution.clue.type = "str" THEN solution.clue.text ELSE solution.clue.input

PoolSolutions ==
    PoolNested
    \cup Built(Definition(ClueStr(<<"a">>), <<"A">>))
    \cup Built(Definition(ClueStr(<<"b">>), <<"A">>))
    \cup Built(Definition(ClueStr(<<"a", "a">>), <<"A">>))
    \cup Built(Definition(ClueStr(<<"a">>), <<"B">>))
    \cup Built(Definition(ClueStr(<<"b">>), <<"A", "-">>))
    \cup UNION {Built(Definition(k, <<"A">>)) :
            k \in UNION {Built(clue_text_Combination(<<"a", "b">>, <<"a">>, d, <<>>,
                                                     <<"a", "A">>)) :
                         d \in PoolDefinitions}}

PatternChars == {"_", "A", "-"}

AnswerPatterns == SeqsUpTo(PatternChars, MaxAnswerLen) \cup {<<"a">>}

CallsOfDoubleSolution(s1, s2) ==
    {[op |-> "DoubleSolution", clue |-> c, answer_pattern |-> p,
      solution1 |-> s1, solution2 |-> s2, answer |-> a] :
        c \in {SurfaceText(s1) \o <<" ">> \o SurfaceText(s2),
               SurfaceText(s2) \o <<" ">> \o SurfaceText(s1)},
        p \in AnswerPatterns,
        a \in Answers}

InitDouble ==
    /\ indicator_delims = DefaultDelims
    /\ token_separator = DefaultSeparator
    /\ \E s1 \in PoolSolutions, s2 \in PoolSolutions :
          /\ args \in CallsOfDoubleSolution(s1, s2)
          /\ records = ObjectsIn(s1) \cup ObjectsIn(s2)
    /\ last = NoCall
    /\ im_result = Uncalled
    /\ cim_result = Uncalled

NewDoubleSolution ==
    \E a \in CallsOf("DoubleSolution") :
        Construct("DoubleSolution",
            DoubleSolution(a.clue, a.answer_pattern, a.solution1, a.solution2,
                           a.answer))

SpecDouble == InitDouble /\ [][NewDoubleSolution]_vars

----------------------------------------------------------------------------
(* Properties of DoubleSolution *)

\* the checks of __post_init__ that come before the comparison of the two
\* solutions: pattern form, answer form, clue concatenation
EarlierChecksPass(a) ==
    /\ cryptic_strings_is_answer_pattern(a.answer_pattern)
    /\ cryptic_strings_is_answer(a.answer)
    /\ clue_text_clue_input(a.solution1.clue).kind = "str"
    /\ clue_text_clue_input(a.solution2.clue).kind = "str"
    /\ cryptic_strings_equals_normalized(a.clue,
           clue_text_clue_input(a.solution1.clue).s \o <<" ">>
           \o clue_text_clue_input(a.solution2.clue).s)

\* C16: a DoubleSolution call whose solution1 and solution2 are the same
\* variant with equal fields raises the identical-solution error whenever
\* the pattern form, answer form and clue concatenation checks pass, and no
\* constructed DoubleSolution has solution1 equal to solution2.
C16_IdenticalRejected ==
    (last.op = "DoubleSolution" /\ args.op = "DoubleSolution") =>
       /\ (args.solution1 = args.solution2 /\ EarlierChecksPass(args)) =>
             (last.outcome = "raise" /\ last.err = "identical"
                 /\ records = ObjectsIn(args.solution1))
       /\ last.outcome = "ok" =>
             (last.record.solution1 # last.record.solution2
                 /\ last.record.solution1 = args.solution1
                 /\ last.record.solution2 = args.solution2)

\* two equal solutions with equal answers and a fitting pattern, rejected
C16_Witness ==
    /\ last.op = "DoubleSolution"
    /\ args.op = "DoubleSolution"
    /\ args.solution1 = args.solution2
    /\ EarlierChecksPass(args)
    /\ args.solution1.answer = args.answer
    /\ cryptic_strings_answer_matches_pattern(args.answer, args.answer_pattern)
    /\ last.err = "identical"

\* the pattern without its separators: its letters and underscores
RECURSIVE PatternCells(_)
PatternCells(p) ==
    IF p = <<>> THEN <<>>
    ELSE (IF IsUpper(Head(p)) \/ Head(p) = "_" THEN <<Head(p)>> ELSE <<>>)
         \o PatternCells(Tail(p))

\* the letters of the answer fill the cells of the pattern one for one, a
\* letter cell taking that letter and an underscore any letter
PatternFits(answer, answer_pattern) ==
    LET letters == OnlyAlpha(answer)
        cells == PatternCells(answer_pattern)
    IN  /\ Len(letters) = Len(cells)
        /\ \A i \in DOMAIN cells :
              cells[i] = "_" \/ upper(letters[i]) = <<cells[i]>>

\* C17: a constructed DoubleSolution has solution1.answer, solution2.answer
\* and answer equal as strings, and its answer matches its answer_pattern;
\* a call whose solution answers differ, or differ from the outer answer, or
\* whose answer does not match the pattern, raises and leaves no object.
C17_AnswersAgree ==
    (last.op = "DoubleSolution" /\ args.op = "DoubleSolution") =>
       /\ last.outcome = "ok" =>
             /\ last.record.solution1.answer = last.record.solution2.answer
             /\ last.record.solution2.answer = last.record.answer
             /\ last.record.answer = args.answer
             /\ last.record.answer_pattern = args.answer_pattern
             /\ cryptic_strings_answer_matches_pattern(last.record.answer,
                    last.record.answer_pattern)
             /\ PatternFits(last.record.answer, last.record.answer_pattern)
       /\ (\/ args.solution1.answer # args.solution2.answer
           \/ args.solution1.answer # args.answer
           \/ ~cryptic_strings_answer_matches_pattern(args.answer,
                   args.answer_pattern)
           \/ ~PatternFits(args.answer, args.answer_pattern)) =>
             (last.outcome = "raise"
                 /\ records = ObjectsIn(args.solution1) \cup ObjectsIn(args.solution2))

\* a DoubleSolution constructed with a separator in its pattern
C17_Witness ==
    /\ last.op = "DoubleSolution"
    /\ args.op = "DoubleSolution"
    /\ last.outcome = "ok"
    /\ last.record \in records
    /\ "-" \in Range(args.answer_pattern)
    /\ args.solution1.clue # args.solution2.clue

CombinationTypes == {"Combination", "clue_text.Combination"}

\* the checks of a DoubleSolution other than the clue concatenation
OtherChecksPass(a) ==
    /\ cryptic_strings_is_answer_pattern(a.answer_pattern)
    /\ cryptic_strings_is_answer(a.answer)
    /\ a.solution1 # a.solution2
    /\ a.solution1.answer = a.solution2.answer
    /\ a.solution1.answer = a.answer
    /\ cryptic_strings_answer_matches_pattern(a.answer, a.answer_pattern)

\* C18: a DoubleSolution call one of whose solutions has a Combination as
\* its clue constructs exactly when the outer clue normalize-equals the
\* input of solution1's clue, a space and the input of solution2's clue,
\* and the other checks pass.
C18_InputProjection ==
    (/\ last.op = "DoubleSolution"
     /\ args.op = "DoubleSolution"
     /\ \/ args.solution1.clue.type \in CombinationTypes
        \/ args.solution2.clue.type \in CombinationTypes)
    => (last.outcome = "ok"
          <=> (/\ cryptic_strings_equals_normalized(args.clue,
                      SurfaceText(args.solution1) \o <<" ">>
                      \o SurfaceText(args.solution2))
               /\ OtherChecksPass(args)))

\* the call with solution1 and solution2 exchanged and the outer clue built
\* in the exchanged order
SwappedCall(a) ==
    DoubleSolution(SurfaceText(a.solution2) \o <<" ">> \o SurfaceText(a.solution1),
                   a.answer_pattern, a.solution2, a.solution1, a.answer)

\* the call with solution1 and solution2 exchanged and the outer clue kept
SwappedKeepingClue(a) ==
    DoubleSolution(a.clue, a.answer_pattern, a.solution2, a.solution1, a.answer)

\* the two clue texts give the same normalized text in either order
TextsCommute(a) ==
    cryptic_strings_equals_normalized(
        SurfaceText(a.solution1) \o <<" ">> \o SurfaceText(a.solution2),
        SurfaceText(a.solution2) \o <<" ">> \o SurfaceText(a.solution1))

\* C19 as stated: when a DoubleSolution is constructed, the call with the
\* solutions exchanged and the clue rebuilt in the exchanged order also
\* constructs, and the call with the solutions exchanged and the clue kept
\* raises the concatenation error.
C19_SwapRejectedWithKeptClue ==
    (last.op = "DoubleSolution" /\ args.op = "DoubleSolution"
        /\ last.outcome = "ok")
    => /\ SwappedCall(args).ok
       /\ ~SwappedKeepingClue(args).ok
       /\ SwappedKeepingClue(args).err = "concatenation"

\* C19: when a DoubleSolution is constructed, the call with the solutions
\* exchanged and the clue rebuilt in the exchanged order also constructs;
\* the call with the solutions exchanged and the clue kept raises the
\* concatenation error when the two clue texts, joined in one order and in
\* the other, differ after normalization, and constructs when they do not.
C19_SwapSymmetric ==
    (last.op = "DoubleSolution" /\ args.op = "DoubleSolution"
        /\ last.outcome = "ok")
    => /\ SwappedCall(args).ok
       /\ SwappedCall(args).record.solution1 = last.record.solution2
       /\ SwappedCall(args).record.solution2 = last.record.solution1
       /\ IF TextsCommute(args)
          THEN SwappedKeepingClue(args).ok
          ELSE /\ ~SwappedKeepingClue(args).ok
               /\ SwappedKeepingClue(args).err = "concatenation"

\* a constructed DoubleSolution whose clue texts do not commute
C19_Witness ==
    /\ last.op = "DoubleSolution"
    /\ args.op = "DoubleSolution"
    /\ last.outcome = "ok"
    /\ ~TextsCommute(args)
    /\ SwappedKeepingClue(args).err = "concatenation"

----------------------------------------------------------------------------
(* normalize called on a drawn string, and again on what it returned *)

NormalizeChars == {"a", "A", "1", " ", "-", JCaron, FeminineOrdinal}

NormalizeInputs == SeqsUpTo(NormalizeChars, MaxAnswerLen)

InitNormalize ==
    /\ indicator_delims = DefaultDelims
    /\ token_separator = DefaultSeparator
    /\ records = {}
    /\ args \in {[op |-> "normalize", s |-> s] : s \in NormalizeInputs}
    /\ last = NoCall
    /\ im_result = Uncalled
    /\ cim_result = Uncalled

\* normalize(s)
CallNormalize ==
    /\ args.op = "normalize"
    /\ im_result.outcome = "uncalled"
    /\ im_result' = Returned(normalize(args.s))
    /\ UNCHANGED <<indicator_delims, token_separator, records, last, args,
                   cim_result>>

\* normalize(normalize(s))
CallNormalizeAgain ==
    /\ args.op = "normalize"
    /\ im_result.outcome = "return"
    /\ cim_result.outcome = "uncalled"
    /\ cim_result' = Returned(normalize(im_result.value))
    /\ UNCHANGED <<indicator_delims, token_separator, records, last, args,
                   im_result>>

NextNormalize == CallNormalize \/ CallNormalizeAgain

SpecNormalize == InitNormalize /\ [][NextNormalize]_vars

\* C20: normalize returns for every string; normalizing what it returned
\* returns the same string; the returned string holds only uppercase letters
\* and digits, and for a string in answer form holds no space and no hyphen.
C20_NormalizeIdempotent ==
    /\ (args.op = "normalize" /\ im_result.outcome # "uncalled") =>
          /\ im_result.outcome = "return"
          /\ \A i \in DOMAIN im_result.value :
                IsUpper(im_result.value[i]) \/ im_result.value[i] \in Digits
          /\ AnswerForm(args.s) =>
                \A i \in DOMAIN im_result.value :
                   im_result.value[i] \notin {" ", "-"}
    /\ (args.op = "normalize" /\ cim_result.outcome # "uncalled") =>
          (cim_result.outcome = "return" /\ cim_result.value = im_result.value)

----------------------------------------------------------------------------
(* split_tokens and join_tokens *)

\* s.replace(separator, '')
RECURSIVE RemoveAll(_, _)
RemoveAll(s, c) ==
    IF s = <<>> THEN <<>>
    ELSE (IF Head(s) = c THEN <<>> ELSE <<Head(s)>>) \o RemoveAll(Tail(s), c)

\* join_tokens
join_tokens_First(s, separator) == ReplaceFirst(s, <<separator>>, <<>>)
join_tokens(s, separator) == RemoveAll(s, separator)

\* the position where a match of start [^end]* end that begins at i ends,
\* 0 when no match begins at i
MarkerEnd(s, i, delims) ==
    IF s[i] = delims[1] /\ \E j \in (i + 1)..Len(s) : s[j] = delims[2]
    THEN CHOOSE j \in (i + 1)..Len(s) :
            /\ s[j] = delims[2]
            /\ \A k \in (i + 1)..(j - 1) : s[k] # delims[2]
    ELSE 0

\* filter(None, re.split(pattern, s)) with each part that is not an
\* indicator part marker cut into its characters: the tokens of s from
\* position i on
RECURSIVE TokensFrom(_, _, _)
TokensFrom(s, i, delims) ==
    IF i > Len(s) THEN <<>>
    ELSE LET j == MarkerEnd(s, i, delims)
         IN  IF j > 0
             THEN <<SubSeq(s, i, j)>> \o TokensFrom(s, j + 1, delims)
             ELSE <<<<s[i]>>>> \o TokensFrom(s, i + 1, delims)

\* separator.join(tokens)
RECURSIVE JoinWith(_, _)
JoinWith(tokens, separator) ==
    IF tokens = <<>> THEN <<>>
    ELSE IF Len(tokens) = 1 THEN Head(tokens)
    ELSE Head(tokens) \o <<separator>> \o JoinWith(Tail(tokens), separator)

IllegalTokenSplit ==
    [err |-> "token_split", token |-> <<>>, count |-> 0, len |-> 0]

\* if s == expected
TokenSplitMatches_Always(s, expected) == TRUE
TokenSplitMatches(s, expected) == s = expected

\* split_tokens
RECURSIVE split_tokens(_, _, _)
split_tokens(s, separator, delims) ==
    IF separator \in Range(s)
    THEN LET joined == join_tokens(s, separator)
             expected == split_tokens(joined, separator, delims)
         IN  IF expected.outcome = "raise" THEN expected
             ELSE IF TokenSplitMatches(s, expected.value) THEN Returned(s)
             ELSE Raised(IllegalTokenSplit)
    ELSE Returned(JoinWith(TokensFrom(s, 1, delims), separator))

\* the number of calls of split_tokens nested inside the call split_tokens(s)
RECURSIVE split_tokens_depth(_, _)
split_tokens_depth(s, separator) ==
    IF separator \in Range(s)
    THEN 1 + split_tokens_depth(join_tokens(s, separator), separator)
    ELSE 0

----------------------------------------------------------------------------
(* split_tokens called on a drawn string under a drawn configuration, then *)
(* split_tokens and join_tokens called on what it returned                 *)

MaxTokenLen == 4    \* length of a drawn string to tokenize

TokenChars == {"a", "|", "<", ">"}

TokenInputs == SeqsUpTo(TokenChars, MaxTokenLen)

\* configurations the setters accept
TokenDelims == {<<"<", ">">>, <<"<", "<">>, <<"|", ">">>, <<"a", "|">>}
TokenSeparators == {"|", "<", "a"}

InitTokens ==
    /\ indicator_delims \in TokenDelims
    /\ token_separator \in TokenSeparators
    /\ records = {}
    /\ args \in {[op |-> "split_tokens", s |-> s] : s \in TokenInputs}
    /\ last = NoCall
    /\ im_result = Uncalled
    /\ cim_result = Uncalled

\* split_tokens(s)
CallSplitTokens ==
    /\ args.op = "split_tokens"
    /\ im_result.outcome = "uncalled"
    /\ im_result' = split_tokens(args.s, token_separator, indicator_delims)
    /\ UNCHANGED <<indicator_delims, token_separator, records, last, args,
                   cim_result>>

\* split_tokens(t) for the t that split_tokens(s) returned
CallSplitTokensAgain ==
    /\ args.op = "split_tokens"
    /\ im_result.outcome = "return"
    /\ cim_result.outcome = "uncalled"
    /\ cim_result' = split_tokens(im_result.value, token_separator,
                                  indicator_delims)
    /\ UNCHANGED <<indicator_delims, token_separator, records, last, args,
                   im_result>>

\* join_tokens(t) for the t that split_tokens(s) returned
CallJoinTokens ==
    /\ args.op = "split_tokens"
    /\ im_result.outcome = "return"
    /\ last = NoCall
    /\ last' = [op |-> "join_tokens", outcome |-> "ok", err |-> "",
                record |-> ClueStr(join_tokens(im_result.value, token_separator))]
    /\ UNCHANGED <<indicator_delims, token_separator, records, args,
                   im_result, cim_result>>

NextTokens == CallSplitTokens \/ CallSplitTokensAgain \/ CallJoinTokens

SpecTokens == InitTokens /\ [][NextTokens]_vars

\* two separators in a row, or a separator at either end
MisplacedSeparator(s, separator) ==
    \/ s # <<>> /\ (s[1] = separator \/ s[Len(s)] = separator)
    \/ \E i \in 1..(Len(s) - 1) : s[i] = separator /\ s[i + 1] = separator

\* two characters in a row that are not separators, in a string that holds
\* no delimiter character
MissingSeparator(s, separator, delims) ==
    /\ \A i \in DOMAIN s : s[i] \notin {delims[1], delims[2]} \/ s[i] = separator
    /\ \E i \in 1..(Len(s) - 1) : s[i] # separator /\ s[i + 1] # separator

\* C21: when split_tokens(s) returns t, split_tokens(t) returns t; for an s
\* that holds the separator, split_tokens(s) returns s when s is the
\* tokenization of s without its separators and raises ValueError when it is
\* not, as it is when a separator is doubled, missing, leading or trailing.
C21_SplitIdempotent ==
    (args.op = "split_tokens" /\ im_result.outcome # "uncalled") =>
       /\ cim_result.outcome # "uncalled" =>
             (cim_result.outcome = "return" /\ cim_result.value = im_result.value)
       /\ token_separator \in Range(args.s) =>
             /\ IF args.s = JoinWith(TokensFrom(join_tokens(args.s, token_separator),
                                                1, indicator_delims),
                                     token_separator)
                THEN im_result.outcome = "return" /\ im_result.value = args.s
                ELSE im_result.outcome = "raise" /\ im_result.err = "token_split"
             /\ (\/ MisplacedSeparator(args.s, token_separator)
                 \/ MissingSeparator(args.s, token_separator, indicator_delims))
                => im_result.outcome = "raise"

\* a string already split into three tokens or more, returned twice
C21_Witness ==
    /\ args.op = "split_tokens"
    /\ token_separator \in Range(args.s)
    /\ Len(args.s) >= 3
    /\ im_result.outcome = "return"
    /\ im_result.value = args.s
    /\ cim_result.outcome = "return"
    /\ cim_result.value = args.s

----------------------------------------------------------------------------
(* Properties of the configuration *)

\* the characters the drawn assignments are made of
ConfigChars == {"<", ">", "[", "]", "|", "/"}

\* a tuple of two single characters and a single character
ConfigValid ==
    /\ Len(indicator_delims) = 2
    /\ \A n \in DOMAIN indicator_delims : indicator_delims[n] \in ConfigChars
    /\ token_separator \in ConfigChars

SetterOps == {"set_indicator_delims", "set_token_separator"}

\* a step of a setter leaves a valid configuration, changes only its own
\* option, and changes nothing when it raises
ConfigStep ==
    /\ ConfigValid'
    /\ (last'.op \in SetterOps /\ last'.outcome = "raise") =>
          (last'.err = "ValueError"
             /\ UNCHANGED <<indicator_delims, token_separator>>)
    /\ last'.op = "set_indicator_delims" => UNCHANGED token_separator
    /\ last'.op = "set_token_separator" => UNCHANGED indicator_delims

\* C22: the configuration starts as ('<', '>') and '|'; after any sequence
\* of assignments indicator_delims is a tuple of two single-character
\* strings and token_separator a single-character string, and an assignment
\* of any other value raises ValueError and leaves both options as they
\* were.
C22_ConfigStaysValid ==
    /\ (indicator_delims = DefaultDelims /\ token_separator = DefaultSeparator)
    /\ [][ConfigStep]_vars

\* both options reassigned, and a later assignment rejected
C22_Witness ==
    /\ last.op \in SetterOps
    /\ last.outcome = "raise"
    /\ indicator_delims # DefaultDelims
    /\ token_separator # DefaultSeparator

----------------------------------------------------------------------------
(* A caller that assigns indicator_delims between calls of is_clue,        *)
(* check_clue and the matcher                                              *)

\* cry_config().indicator_delims, read in the body of the called function
ConfiguredDelims_AtImport == DefaultDelims
ConfiguredDelims == indicator_delims

\* check_clue
check_clue(s, delims) ==
    IF ~is_clue(s, delims) THEN Failure("clue_format") ELSE Success(NoRecord)

ConfigTexts ==
    {<<"a">>, <<"a", "<">>, <<">">>, <<"a", "[">>, <<"]">>, <<"<", "]">>}

ConfigMatcherCalls ==
    {[type |-> "call", clue |-> <<"x">>, indicator |-> i, parts |-> <<Entry(<<"k">>, v)>>] :
        i \in {<<"<", "k", ">">>, <<"[", "k", "]">>},
        v \in {StrValue(<<"x">>), ListValue(<<<<"x">>>>)}}

\* is_clue(s)
CallIsClue ==
    /\ \E s \in ConfigTexts :
          /\ last' = [op |-> "is_clue", outcome |-> "ok", err |-> "",
                      record |-> ClueStr(s)]
          /\ im_result' = Returned(IF is_clue(s, ConfiguredDelims)
                                   THEN "True" ELSE "False")
    /\ UNCHANGED <<indicator_delims, token_separator, records, args, cim_result>>

\* check_clue(s)
CallCheckClue ==
    /\ \E s \in ConfigTexts :
          LET result == check_clue(s, ConfiguredDelims)
          IN  last' = [op |-> "check_clue",
                       outcome |-> IF result.ok THEN "ok" ELSE "raise",
                       err |-> result.err, record |-> ClueStr(s)]
    /\ UNCHANGED <<indicator_delims, token_separator, records, args, im_result,
                   cim_result>>

\* indicator_matches(clue, indicator, parts)
CallIndicatorMatches ==
    /\ \E c \in ConfigMatcherCalls :
          /\ last' = [op |-> "indicator_matches", outcome |-> "ok", err |-> "",
                      record |-> c]
          /\ cim_result' = indicator_matches(c.clue, c.indicator, c.parts,
                                             ConfiguredDelims)
    /\ UNCHANGED <<indicator_delims, token_separator, records, args, im_result>>

NextConfig ==
    \/ SetIndicatorDelims
    \/ CallIsClue
    \/ CallCheckClue
    \/ CallIndicatorMatches

SpecConfig == Init /\ [][NextConfig]_vars

\* the text holds neither of the two characters
FreeOf(s, pair) == \A i \in DOMAIN s : s[i] # pair[1] /\ s[i] # pair[2]

\* C23: every call of is_clue, check_clue and the matcher works with the
\* delimiter pair assigned last: is_clue is True and check_clue returns
\* exactly for a text free of the two characters now configured, whatever
\* other pair was configured before, and the matcher forms its placeholder
\* tokens with the pair now configured.
C23_LastWriteWins ==
    /\ last.op = "is_clue" =>
          (im_result.value = "True" <=> FreeOf(last.record.text, indicator_delims))
    /\ last.op = "check_clue" =>
          /\ last.outcome = "ok" <=> FreeOf(last.record.text, indicator_delims)
          /\ last.outcome = "raise" => last.err = "clue_format"
    /\ last.op = "indicator_matches" =>
          IF last.record.indicator = bracketed_key(<<"k">>, indicator_delims)
          THEN cim_result.outcome = "return" /\ cim_result.value = "True"
          ELSE cim_result.outcome = "raise" /\ cim_result.err \in {"not_found", "count"}

\* after ('[', ']') is assigned, a text with '<' is accepted
C23_Witness ==
    /\ indicator_delims = AltDelims
    /\ last.op = "check_clue"
    /\ last.outcome = "ok"
    /\ "<" \in Range(last.record.text)
    /\ im_result.outcome = "return"
    /\ cim_result.outcome = "return"

----------------------------------------------------------------------------
(* answer_matches_pattern, in cry_strings.py and in the revision of        *)
(* cryptic_strings.py that solutions.py uses                               *)

\* characters of string.punctuation that the drawn patterns use
Punctuation == {"!", ".", "|", "-", "_", "<", ">", "[", "]"}

\* cry_strings.is_answer_pattern:
\* re.match(f'^[A-Z_ {re.escape(string.punctuation)}]+$', s) is not None
is_answer_pattern(s) ==
    LET body == BeforeFinalNewline(s)
    IN  /\ body # <<>>
        /\ \A i \in DOMAIN body :
              IsUpper(body[i]) \/ body[i] \in {"_", " "} \/ body[i] \in Punctuation

\* re.sub('[^A-Z_]+', '', answer_pattern)
RECURSIVE clean_answer_pattern(_)
clean_answer_pattern(p) ==
    IF p = <<>> THEN <<>>
    ELSE (IF IsUpper(Head(p)) \/ Head(p) = "_" THEN <<Head(p)>> ELSE <<>>)
         \o clean_answer_pattern(Tail(p))

\* re.sub('[^A-Z]+', '', answer)
RECURSIVE clean_answer(_)
clean_answer(a) ==
    IF a = <<>> THEN <<>>
    ELSE (IF IsUpper(Head(a)) THEN <<Head(a)>> ELSE <<>>) \o clean_answer(Tail(a))

FormatError(err) == [err |-> err, token |-> <<>>, count |-> 0, len |-> 0]

\* cry_strings.answer_matches_pattern
answer_matches_pattern(answer, answer_pattern) ==
    IF ~is_answer(answer) THEN Raised(FormatError("answer_format"))
    ELSE IF ~is_answer_pattern(answer_pattern)
    THEN Raised(FormatError("pattern_format"))
    ELSE Returned(IF PatternRegexMatches(clean_answer_pattern(answer_pattern),
                                         clean_answer(answer))
                  THEN "True" ELSE "False")

\* cryptic_strings.answer_matches_pattern, with the two checks it begins with
cryptic_strings_answer_matches_pattern_call(answer, answer_pattern) ==
    IF ~cryptic_strings_is_answer(answer) THEN Raised(FormatError("answer_format"))
    ELSE IF ~cryptic_strings_is_answer_pattern(answer_pattern)
    THEN Raised(FormatError("pattern_format"))
    ELSE Returned(IF cryptic_strings_answer_matches_pattern(answer, answer_pattern)
                  THEN "True" ELSE "False")

PatternInputChars == {"_", "A", "-", " ", "!", "\n"}

PatternInputs == SeqsUpTo(PatternInputChars, MaxAnswerLen) \cup {<<"a">>}

AnswerInputs == Answers \cup {<<"a">>, <<"A", " ">>}

InitPattern ==
    /\ indicator_delims = DefaultDelims
    /\ token_separator = DefaultSeparator
    /\ records = {}
    /\ args \in {[op |-> "answer_matches_pattern", answer |-> a,
                  answer_pattern |-> p] : a \in AnswerInputs, p \in PatternInputs}
    /\ last = NoCall
    /\ im_result = Uncalled
    /\ cim_result = Uncalled

\* cry_strings.answer_matches_pattern(answer, answer_pattern)
CallAnswerMatchesPattern ==
    /\ args.op = "answer_matches_pattern"
    /\ im_result.outcome = "uncalled"
    /\ im_result' = answer_matches_pattern(args.answer, args.answer_pattern)
    /\ UNCHANGED <<indicator_delims, token_separator, records, last, args,
                   cim_result>>

\* cryptic_strings.answer_matches_pattern(answer, answer_pattern)
CallCrypticAnswerMatchesPattern ==
    /\ args.op = "answer_matches_pattern"
    /\ cim_result.outcome = "uncalled"
    /\ cim_result' = cryptic_strings_answer_matches_pattern_call(args.answer,
                                                                 args.answer_pattern)
    /\ UNCHANGED <<indicator_delims, token_separator, records, last, args,
                   im_result>>

NextPattern == CallAnswerMatchesPattern \/ CallCrypticAnswerMatchesPattern

SpecPattern == InitPattern /\ [][NextPattern]_vars

\* a non-empty string of uppercase letters, underscores and the separators
\* in seps
PatternForm(p, seps) ==
    /\ p # <<>>
    /\ \A i \in DOMAIN p : IsUpper(p[i]) \/ p[i] = "_" \/ p[i] \in seps

\* the outcome the claim gives a call whose pattern class has separators seps
MatchesAsStated(result, answer, answer_pattern, seps) ==
    IF AnswerForm(answer) /\ PatternForm(answer_pattern, seps)
    THEN /\ result.outcome = "return"
         /\ result.value = "True" <=> PatternFits(answer, answer_pattern)
    ELSE result.outcome = "raise"

\* C24: answer_matches_pattern returns True exactly when the letters of the
\* answer and the letters and underscores of the pattern have the same
\* length and each letter of the pattern equals the letter of the answer at
\* its position, whatever separators the two hold, and raises when the
\* answer or the pattern is malformed.
C24_PatternIff ==
    /\ (args.op = "answer_matches_pattern" /\ im_result.outcome # "uncalled") =>
          MatchesAsStated(im_result, args.answer, args.answer_pattern,
                          {" "} \cup Punctuation)
    /\ (args.op = "answer_matches_pattern" /\ cim_result.outcome # "uncalled") =>
          MatchesAsStated(cim_result, args.answer, args.answer_pattern,
                          {" ", "-"})

\* C25: for a map of one list-valued entry whose length equals the number of
\* occurrences of its token in the template, the i-th occurrence of the
\* token in the template takes the i-th element, whatever the elements are:
\* the match succeeds exactly when the clue normalize-equals the template
\* with its occurrences replaced in that way.
C25_ListByPosition ==
    \A r \in CalledResults :
        (/\ Len(args.parts) = 1
         /\ args.parts[1].value.kind = "list"
         /\ Count(args.indicator, TokenOf(1)) = Len(args.parts[1].value.l))
        => ((r.outcome = "return" /\ r.value \in {"True", "None"})
              <=> equals_normalized(
                      LiteralSubstitution(args.indicator, args.parts), args.clue))

\* the error of the earliest check of the pipeline that the call violates,
\* "" when it violates none
EarliestViolated(a) ==
    IF ~PatternForm(a.answer_pattern, {" ", "-"}) THEN "pattern_format"
    ELSE IF ~AnswerForm(a.answer) THEN "answer_format"
    ELSE IF ~cryptic_strings_equals_normalized(a.clue,
                 SurfaceText(a.solution1) \o <<" ">> \o SurfaceText(a.solution2))
    THEN "concatenation"
    ELSE IF a.solution1 = a.solution2 THEN "identical"
    ELSE IF a.solution1.answer # a.solution2.answer THEN "answers_differ"
    ELSE IF a.solution1.answer # a.answer THEN "answer_differs"
    ELSE IF ~PatternFits(a.answer, a.answer_pattern) THEN "pattern"
    ELSE ""

\* C26: a DoubleSolution call raises the error of the earliest check it
\* violates, in the order pattern form, answer form, clue concatenation,
\* solutions differ, solution answers agree, common answer equals outer
\* answer, answer matches pattern, and constructs when it violates none.
C26_EarliestCheckReported ==
    (last.op = "DoubleSolution" /\ args.op = "DoubleSolution") =>
       /\ last.err = EarliestViolated(args)
       /\ last.outcome = "ok" <=> EarliestViolated(args) = ""

FormatErrors == {"clue_format", "answer_format"}

\* C27: a call of an indicator-bearing variant whose answer is not in answer
\* form or whose clue text holds a delimiter character raises the format
\* error, whatever the indicator match and the semantic check would give.
C27_FormatErrorFirst ==
    (/\ last.op \in IndicatorTypes
     /\ args.op = last.op
     /\ \/ ~AnswerForm(args.answer)
        \/ ~FreeOf(clue_input(args.clue), indicator_delims))
    => (last.outcome = "raise" /\ last.err \in FormatErrors)

----------------------------------------------------------------------------
(* The matcher called with a map and with the same entries in another      *)
(* order: a dict iterates in the order its entries were inserted           *)

OrderNames == {<<"k">>, <<"j">>, <<"k", ">", "<", "j">>}

OrderValues ==
    {StrValue(<<"x">>), StrValue(<<"j">>), StrValue(Tok(<<"j">>)),
     ListValue(<<<<"x">>, <<"j">>>>)}

OrderMaps ==
    {p \in SeqsUpTo([key : OrderNames, value : OrderValues], MaxEntries) :
        \A i, j \in DOMAIN p : i # j => p[i].key # p[j].key}

OrderTemplates == {Join(p) : p \in SeqsUpTo(Pieces, MaxPieces)}

\* the maps with the entries of m in any order
Reorderings(m) ==
    {q \in [DOMAIN m -> Range(m)] : Range(q) = Range(m)}

InitOrder ==
    /\ indicator_delims = DefaultDelims
    /\ token_separator = DefaultSeparator
    /\ records = {}
    /\ last = NoCall
    /\ \E t \in OrderTemplates, m \in OrderMaps :
          args \in {[op |-> "reorder", clue |-> c, indicator |-> t, parts |-> m] :
                      c \in {LiteralSubstitution(t, m), <<"x", "j">>}}
    /\ im_result = Uncalled
    /\ cim_result = Uncalled

\* indicator_matches(clue, indicator, parts)
MatchInOrder ==
    /\ args.op = "reorder"
    /\ im_result.outcome = "uncalled"
    /\ im_result' = indicator_matches(args.clue, args.indicator, args.parts,
                                      indicator_delims)
    /\ UNCHANGED <<indicator_delims, token_separator, records, last, args,
                   cim_result>>

\* indicator_matches(clue, indicator, parts2) for a dict parts2 that holds
\* the entries of parts in another order
MatchReordered ==
    /\ args.op = "reorder"
    /\ cim_result.outcome = "uncalled"
    /\ \E q \in Reorderings(args.parts) :
          /\ q # args.parts
          /\ cim_result' = indicator_matches(args.clue, args.indicator, q,
                                             indicator_delims)
    /\ UNCHANGED <<indicator_delims, token_separator, records, last, args,
                   im_result>>

NextOrder == MatchInOrder \/ MatchReordered

SpecOrder == InitOrder /\ [][NextOrder]_vars

\* from position i on, the delimiter characters of t occur only in
\* placeholder tokens with a non-empty alphanumeric name
RECURSIVE WellFormedFrom(_, _, _)
WellFormedFrom(t, i, delims) ==
    IF i > Len(t) THEN TRUE
    ELSE IF t[i] = delims[1]
    THEN LET j == MarkerEnd(t, i, delims)
         IN  /\ j > i + 1
             /\ \A n \in (i + 1)..(j - 1) : isalnum(t[n])
             /\ WellFormedFrom(t, j + 1, delims)
    ELSE t[i] # delims[2] /\ WellFormedFrom(t, i + 1, delims)

\* no substitution string of the map holds a delimiter character
ValuesFreeOf(m, delims) ==
    \A n \in DOMAIN m :
        /\ FreeOf(m[n].value.s, delims)
        /\ \A e \in DOMAIN m[n].value.l : FreeOf(m[n].value.l[e], delims)

\* no key of the map holds a delimiter character
KeysFreeOf(m, delims) == \A n \in DOMAIN m : FreeOf(m[n].key, delims)

\* match, no-match or template error
OutcomeOf(r) == IF r.outcome = "raise" THEN "template_error" ELSE r.value

BothOrdersCalled ==
    /\ args.op = "reorder"
    /\ im_result.outcome # "uncalled"
    /\ cim_result.outcome # "uncalled"

\* C28 as stated: when the delimiter characters of the template occur only
\* in well-formed placeholder tokens and no substitution string holds a
\* delimiter character, two maps with the same entries in different orders
\* give the same outcome.
C28_OrderIndependent ==
    (/\ BothOrdersCalled
     /\ WellFormedFrom(args.indicator, 1, indicator_delims)
     /\ ValuesFreeOf(args.parts, indicator_delims))
    => OutcomeOf(im_result) = OutcomeOf(cim_result)

\* C28: when the delimiter characters of the template occur only in
\* well-formed placeholder tokens and neither a substitution string nor a
\* key of the map holds a delimiter character, two maps with the same
\* entries in different orders give the same outcome: both match, both do
\* not match, or both raise a template error.
C28_OrderIndependentKeys ==
    (/\ BothOrdersCalled
     /\ WellFormedFrom(args.indicator, 1, indicator_delims)
     /\ ValuesFreeOf(args.parts, indicator_delims)
     /\ KeysFreeOf(args.parts, indicator_delims))
    => OutcomeOf(im_result) = OutcomeOf(cim_result)

\* two entries with plain keys, matched in both orders
C28_Witness ==
    /\ BothOrdersCalled
    /\ Len(args.parts) = 2
    /\ ValuesFreeOf(args.parts, indicator_delims)
    /\ KeysFreeOf(args.parts, indicator_delims)
    /\ im_result.outcome = "return"
    /\ im_result.value = "True"
    /\ cim_result.outcome = "return"
    /\ cim_result.value = "True"

\* C29: split_tokens ends on every string under every configuration the
\* setters accept, a separator equal to a delimiter character included: the
\* string it calls itself on holds no separator, so the calls nest at most
\* one deep; and for an s without the separator split_tokens(s) returns and
\* join_tokens of what it returned is s.
C29_SplitTerminatesAndJoins ==
    (args.op = "split_tokens" /\ im_result.outcome # "uncalled") =>
       /\ im_result.outcome \in {"return", "raise"}
       /\ split_tokens_depth(args.s, token_separator) <= 1
       /\ token_separator \notin Range(join_tokens(args.s, token_separator))
       /\ token_separator \notin Range(args.s) =>
             /\ im_result.outcome = "return"
             /\ last.op = "join_tokens" => last.record.text = args.s

\* a string of several tokens, split under a separator that is also a
\* delimiter character, and joined again
C29_Witness ==
    /\ args.op = "split_tokens"
    /\ token_separator \in Range(indicator_delims)
    /\ token_separator \notin Range(args.s)
    /\ Len(args.s) >= 3
    /\ im_result.outcome = "return"
    /\ Len(im_result.value) > Len(args.s)
    /\ last.op = "join_tokens"
    /\ last.record.text = args.s

----------------------------------------------------------------------------
(* Configuration assignments interleaved with constructions *)

ConstructorOps == VariantTypes \cup {"Combination"}

\* a step of a constructor leaves the configuration alone, leaves every
\* object that exists as it is, and adds the new object when it passes the
\* checks under the delimiter pair configured at that moment; a step of a
\* setter leaves every object as it is
InterleavedStep ==
    /\ last'.op \notin SetterOps =>
          UNCHANGED <<indicator_delims, token_separator>>
    /\ last'.op \in SetterOps => UNCHANGED records
    /\ last'.op \in ConstructorOps =>
          /\ last'.outcome = "ok" =>
                /\ records' = records \cup {last'.record}
                /\ Reconstruct(last'.record, indicator_delims) = Success(last'.record)
          /\ last'.outcome = "raise" => UNCHANGED records

\* C30: in any interleaving of configuration assignments and constructions
\* an object is checked against the delimiter pair configured when it is
\* constructed; an assignment to the configuration neither alters nor
\* removes an object that exists, and no construction, with the validation
\* and matching it runs, successful or failing, changes the configuration.
C30_ConstructionAndConfigIndependent == [][InterleavedStep]_vars

\* an object constructed under one delimiter pair is still there, unchanged,
\* after the assignment of a pair under which its checks fail
C30_Witness ==
    /\ last.op = "set_indicator_delims"
    /\ last.outcome = "ok"
    /\ \E r \in records :
          /\ r.type \in IndicatorTypes
          /\ ~Reconstruct(r, indicator_delims).ok
          /\ \E delims \in {DefaultDelims, AltDelims} :
                Reconstruct(r, delims) = Success(r)

=============================================================================
